---------------------------- MODULE Spec2Model ----------------------------
(***************************************************************************)
(* Model of irs/management/commands/load.py: the `load` management command *)
(* that reads the pipe-delimited IRS Form 8872 data file row by row,       *)
(* cleans every cell, stores filings, buffers contributions and            *)
(* expenditures for bulk inserts, and finally resolves amendments.         *)
(*                                                                         *)
(* Text is modelled as a sequence of code points (65 is 'A', 48 is '0').   *)
(* A cleaned value is a tagged tuple: <<"null">> (Python None),            *)
(* <<"text", s>>, <<"int", n>>, <<"date", y, m, d>>, <<"dec", ...>>.       *)
(***************************************************************************)
EXTENDS Integers, Sequences, FiniteSets, TLC

(***************************************************************************)
(* Bounds of the model.                                                    *)
(***************************************************************************)
\* Rows of the data file.
MaxRows == 3
\* Invocations of Command.handle in one process.
MaxRuns == 2
\* Stands for the 5000 of load.py lines 263 and 266: a buffer is flushed when
\* it holds more than FlushThreshold records.
FlushThreshold == 1

(***************************************************************************)
(* Values                                                                  *)
(***************************************************************************)
Null == <<"null">>
\* An exception raised inside a call, as a value that propagates to the caller.
Raise == <<"raise">>
TextV(s) == <<"text", s>>
IntV(n) == <<"int", n>>
DateV(y, m, d) == <<"date", y, m, d>>
\* decimal.Decimal: sign, integer coefficient, exponent; or a special value.
Dec(sign, coeff, exp) == <<"dec", sign, coeff, exp>>
DecInf(sign) == <<"dec", sign, "inf">>
DecNaN(sign, signal, diag) == <<"dec", sign, "nan", signal, diag>>

(***************************************************************************)
(* Sequences of code points                                                *)
(***************************************************************************)
IsDigit(c) == c \in 48..57
IsSign(c) == c \in {43, 45}
Upper(c) == IF c \in 97..122 THEN c - 32 ELSE c
\* The ASCII characters str.strip() removes, and those int() skips.
STR_SPACE == {9, 10, 11, 12, 13, 28, 29, 30, 31, 32}
INT_SPACE == {9, 10, 11, 12, 13, 32}

RECURSIVE Filter(_, _)
\* The elements of s that are in the set keep, in order.
Filter(s, keep) ==
    IF s = <<>> THEN <<>>
    ELSE (IF Head(s) \in keep THEN <<Head(s)>> ELSE <<>>) \o Filter(Tail(s), keep)

RECURSIVE LStrip(_, _)
LStrip(s, ws) == IF s # <<>> /\ Head(s) \in ws THEN LStrip(Tail(s), ws) ELSE s

RECURSIVE RStrip(_, _)
RStrip(s, ws) ==
    IF s # <<>> /\ s[Len(s)] \in ws THEN RStrip(SubSeq(s, 1, Len(s) - 1), ws) ELSE s

\* s without the leading and trailing characters that are in ws.
Strip(s, ws) == RStrip(LStrip(s, ws), ws)

AllDigits(s) == \A i \in 1..Len(s) : IsDigit(s[i])

RECURSIVE DigitsValue(_)
\* The number a sequence of decimal digits denotes (0 for none).
DigitsValue(s) ==
    IF s = <<>> THEN 0
    ELSE 10 * DigitsValue(SubSeq(s, 1, Len(s) - 1)) + (s[Len(s)] - 48)

UpperSeq(s) == [i \in 1..Len(s) |-> Upper(s[i])]

\* The length of the longest prefix of s made of digits.
DigitPrefixLen(s) ==
    IF \E i \in 1..Len(s) : ~IsDigit(s[i])
    THEN (CHOOSE i \in 1..Len(s) :
             ~IsDigit(s[i]) /\ \A j \in 1..(i - 1) : IsDigit(s[j])) - 1
    ELSE Len(s)

(***************************************************************************)
(* The conversions clean_cell calls                                        *)
(***************************************************************************)
\* cell.encode('ascii', 'ignore').decode(): non-ASCII characters are dropped.
Ascii(cell) == Filter(cell, 0..127)

\* int(cell): surrounding whitespace, an optional sign, digits with single
\* underscores between them; anything else raises ValueError.
IntOf(cell) ==
    LET s == Strip(cell, INT_SPACE)
        neg == s # <<>> /\ s[1] = 45
        body == IF s # <<>> /\ IsSign(s[1]) THEN Tail(s) ELSE s
        ok == /\ body # <<>>
              /\ IsDigit(body[1]) /\ IsDigit(body[Len(body)])
              /\ \A i \in 1..Len(body) : IsDigit(body[i]) \/ body[i] = 95
              /\ \A i \in 1..(Len(body) - 1) : ~(body[i] = 95 /\ body[i + 1] = 95)
        n == DigitsValue(Filter(body, 48..57))
    IN  IF ok THEN IntV(IF neg THEN 0 - n ELSE n) ELSE Raise

\* How many characters the %m directive, 1[0-2]|0[1-9]|[1-9], can take from
\* the front of r, in the order the regular expression tries them.
MonthLens(r) ==
    LET two == /\ Len(r) >= 2
               /\ \/ r[1] = 49 /\ r[2] \in 48..50
                  \/ r[1] = 48 /\ r[2] \in 49..57
        one == Len(r) >= 1 /\ r[1] \in 49..57
    IN  (IF two THEN <<2>> ELSE <<>>) \o (IF one THEN <<1>> ELSE <<>>)

\* How many characters the %d directive, 3[0-1]|[1-2]\d|0[1-9]|[1-9]| [1-9],
\* takes from the front of r (0: no match).
DayLen(r) ==
    IF /\ Len(r) >= 2
       /\ \/ r[1] = 51 /\ r[2] \in 48..49
          \/ r[1] \in 49..50 /\ IsDigit(r[2])
          \/ r[1] = 48 /\ r[2] \in 49..57
    THEN 2
    ELSE IF Len(r) >= 1 /\ r[1] \in 49..57 THEN 1
    ELSE IF Len(r) >= 2 /\ r[1] = 32 /\ r[2] \in 49..57 THEN 2
    ELSE 0

IsLeap(y) == y % 4 = 0 /\ (y % 100 # 0 \/ y % 400 = 0)

DaysInMonth(y, m) ==
    IF m = 2 THEN (IF IsLeap(y) THEN 29 ELSE 28)
    ELSE IF m \in {4, 6, 9, 11} THEN 30 ELSE 31

\* datetime.strptime(cell, '%Y%m%d'): four digits of year, then month and day
\* as the directives' regular expressions match them; the whole cell must be
\* consumed and the date must exist, else ValueError.
DateOf(cell) ==
    IF ~(Len(cell) >= 4 /\ AllDigits(SubSeq(cell, 1, 4))) THEN Raise
    ELSE
    LET r == SubSeq(cell, 5, Len(cell))
        lens == MonthLens(r)
        fits == {k \in 1..Len(lens) : DayLen(SubSeq(r, lens[k] + 1, Len(r))) > 0}
    IN  IF fits = {} THEN Raise
        ELSE
        LET k == CHOOSE k \in fits : \A j \in fits : k <= j
            ml == lens[k]
            dl == DayLen(SubSeq(r, ml + 1, Len(r)))
            y == DigitsValue(SubSeq(cell, 1, 4))
            m == DigitsValue(SubSeq(r, 1, ml))
            d == DigitsValue(Filter(SubSeq(r, ml + 1, ml + dl), 48..57))
        IN  IF ml + dl # Len(r) THEN Raise
            ELSE IF y < 1 \/ d > DaysInMonth(y, m) THEN Raise
            ELSE DateV(y, m, d)

\* Decimal(cell): the cell is stripped and its underscores removed, then
\* matched against [-+]? ( digits [. digits] [E [-+] digits] | Inf(inity)
\* | [s]NaN digits ), ignoring case; anything else raises InvalidOperation.
DecimalOf(cell) ==
    LET s == Filter(Strip(cell, STR_SPACE), (0..127) \ {95})
        sign == IF s # <<>> /\ s[1] = 45 THEN 1 ELSE 0
        r == IF s # <<>> /\ IsSign(s[1]) THEN Tail(s) ELSE s
        u == UpperSeq(r)
        il == DigitPrefixLen(r)
        r1 == SubSeq(r, il + 1, Len(r))
        dot == r1 # <<>> /\ r1[1] = 46
        fl == IF dot THEN DigitPrefixLen(Tail(r1)) ELSE 0
        r2 == IF dot THEN SubSeq(r1, fl + 2, Len(r1)) ELSE r1
        e == IF r2 # <<>> THEN Tail(r2) ELSE <<>>
        eneg == e # <<>> /\ e[1] = 45
        edig == IF e # <<>> /\ IsSign(e[1]) THEN Tail(e) ELSE e
        expOk == \/ r2 = <<>>
                 \/ Upper(r2[1]) = 69 /\ edig # <<>> /\ AllDigits(edig)
        exp == IF r2 = <<>> THEN 0
               ELSE IF eneg THEN 0 - DigitsValue(edig) ELSE DigitsValue(edig)
        coeff == DigitsValue(SubSeq(r, 1, il) \o (IF dot THEN SubSeq(r1, 2, fl + 1) ELSE <<>>))
        signal == u # <<>> /\ u[1] = 83
        nan == IF signal THEN Tail(u) ELSE u
    IN  IF (il > 0 \/ (dot /\ fl > 0)) /\ expOk THEN Dec(sign, coeff, exp - fl)
        ELSE IF u \in {<<73, 78, 70>>, <<73, 78, 70, 73, 78, 73, 84, 89>>} THEN DecInf(sign)
        ELSE IF /\ Len(nan) >= 3
                /\ SubSeq(nan, 1, 3) = <<78, 65, 78>>
                /\ AllDigits(SubSeq(nan, 4, Len(nan)))
             THEN DecNaN(sign, signal, DigitsValue(SubSeq(nan, 4, Len(nan))))
        ELSE Raise

(***************************************************************************)
(* RowParser.clean_cell                                                    *)
(***************************************************************************)
\* Terms in the raw data that do not mean anything: 'N/A', 'NOT APPLICABLE',
\* 'NA', 'NONE', 'NOT APPLICABE', 'NOT APLICABLE', 'N A', 'N-A'.
NULL_TERMS ==
    { <<78, 47, 65>>,
      <<78, 79, 84, 32, 65, 80, 80, 76, 73, 67, 65, 66, 76, 69>>,
      <<78, 65>>,
      <<78, 79, 78, 69>>,
      <<78, 79, 84, 32, 65, 80, 80, 76, 73, 67, 65, 66, 69>>,
      <<78, 79, 84, 32, 65, 80, 76, 73, 67, 65, 66, 76, 69>>,
      <<78, 32, 65>>,
      <<78, 45, 65>> }

\* The longest text kept.
TEXT_MAX == 50

\* A text branch that looks for the null terms in the cell as it came.
TextOf_case_sensitive(cell) ==
    LET up == UpperSeq(cell)
        cut == IF Len(up) > TEXT_MAX THEN SubSeq(up, 1, TEXT_MAX) ELSE up
    IN  IF cut = <<>> \/ cell \in NULL_TERMS THEN Null ELSE TextV(cut)

\* A text branch that keeps one character less.
TextOf_cut_short(cell) ==
    LET up == UpperSeq(cell)
        cut == IF Len(up) > TEXT_MAX THEN SubSeq(up, 1, TEXT_MAX - 1) ELSE up
    IN  IF cut = <<>> \/ cut \in NULL_TERMS THEN Null ELSE TextV(cut)

\* The text branch: upper-case, cut to 50 characters, None for an empty cell
\* or a null term.
TextOf(cell) ==
    LET up == UpperSeq(cell)
        cut == IF Len(up) > TEXT_MAX THEN SubSeq(up, 1, TEXT_MAX) ELSE up
    IN  IF cut = <<>> \/ cut \in NULL_TERMS THEN Null ELSE TextV(cut)

\* The body of the try block: the conversion the field type selects, applied
\* to the cell without its non-ASCII characters.
convert(cell, cell_type) ==
    LET a == Ascii(cell)
    IN  IF cell_type = "D" THEN DateOf(a)
        ELSE IF cell_type = "I" THEN IntOf(a)
        ELSE IF cell_type = "N" THEN DecimalOf(a)
        ELSE TextOf(a)

\* A clean_cell whose try block has no except clause.
clean_cell_unguarded(cell, cell_type) == convert(cell, cell_type)

\* clean_cell: any exception of the conversion becomes None.
clean_cell(cell, cell_type) ==
    LET v == convert(cell, cell_type)
    IN  IF v = Raise THEN Null ELSE v

(***************************************************************************)
(* The mappings build_mappings loads: per record type, position ->         *)
(* (model_name, field_type), reduced to the fields the command reads.      *)
(***************************************************************************)
F8872_MAPPING ==
    << <<"record_type", "C">>, <<"form_id_number", "I">>, <<"EIN", "C">>,
       <<"organization_name", "C">>, <<"begin_date", "D">>, <<"end_date", "D">>,
       <<"amended_report_indicator", "I">> >>

SA_MAPPING ==
    << <<"record_type", "C">>, <<"form_id_number", "I">>, <<"EIN", "C">>,
       <<"contributor_name", "C">>, <<"contribution_amount", "N">>,
       <<"contribution_date", "D">> >>

SB_MAPPING ==
    << <<"record_type", "C">>, <<"form_id_number", "I">>, <<"EIN", "C">>,
       <<"recipient_name", "C">>, <<"expenditure_amount", "N">>,
       <<"expenditure_date", "D">> >>

(***************************************************************************)
(* RowParser.parse_row                                                     *)
(***************************************************************************)
Min(a, b) == IF a <= b THEN a ELSE b

\* The cells the mapping covers, cleaned, by field name: cells beyond the
\* mapping are ignored and fields beyond the row are absent.
parse_row(mapping, row) ==
    LET n == Min(Len(row), Len(mapping))
    IN  [f \in {mapping[i][1] : i \in 1..n} |->
            LET i == CHOOSE i \in 1..n : mapping[i][1] = f
            IN  clean_cell(row[i], mapping[i][2])]

\* An exception of clean_cell leaves parse_row.
Raises(parsed_row) == \E f \in DOMAIN parsed_row : parsed_row[f] = Raise

\* A model instance's field: None unless the parsed row sets it.
Field(parsed_row, f) == IF f \in DOMAIN parsed_row THEN parsed_row[f] ELSE Null

\* F8872(**parsed_row)
NewF8872(parsed_row) ==
    [ record_type |-> Field(parsed_row, "record_type"),
      form_id_number |-> Field(parsed_row, "form_id_number"),
      EIN |-> Field(parsed_row, "EIN"),
      organization_name |-> Field(parsed_row, "organization_name"),
      begin_date |-> Field(parsed_row, "begin_date"),
      end_date |-> Field(parsed_row, "end_date"),
      amended_report_indicator |-> Field(parsed_row, "amended_report_indicator"),
      committee_id |-> Null,
      is_amended |-> FALSE,
      amended_by_id |-> Null ]

\* Contribution(**parsed_row)
NewContribution(parsed_row) ==
    [ record_type |-> Field(parsed_row, "record_type"),
      form_id_number |-> Field(parsed_row, "form_id_number"),
      EIN |-> Field(parsed_row, "EIN"),
      contributor_name |-> Field(parsed_row, "contributor_name"),
      contribution_amount |-> Field(parsed_row, "contribution_amount"),
      contribution_date |-> Field(parsed_row, "contribution_date"),
      filing_id |-> Null,
      committee_id |-> Null,
      entity_type |-> Null,
      contributor_first_name |-> Null,
      contributor_middle_name |-> Null,
      contributor_last_name |-> Null,
      contributor_corporation_name |-> Null ]

\* Expenditure(**parsed_row)
NewExpenditure(parsed_row) ==
    [ record_type |-> Field(parsed_row, "record_type"),
      form_id_number |-> Field(parsed_row, "form_id_number"),
      EIN |-> Field(parsed_row, "EIN"),
      recipient_name |-> Field(parsed_row, "recipient_name"),
      expenditure_amount |-> Field(parsed_row, "expenditure_amount"),
      expenditure_date |-> Field(parsed_row, "expenditure_date"),
      filing_id |-> Null,
      committee_id |-> Null ]

(***************************************************************************)
(* The rows a data file is made of                                         *)
(***************************************************************************)
Cell2 == <<50>>                                 \* "2"
CellA == <<65>>                                 \* "A"
CellB == <<66>>                                 \* "B"
CellZ == <<90>>                                 \* "Z"
Id1 == <<49>>                                   \* "1"
Id2 == <<50>>                                   \* "2"
Id3 == <<51>>                                   \* "3"
IdBad == <<120>>                                \* "x"
Ein1 == <<49, 49>>                              \* "11"
Ein2 == <<50, 50>>                              \* "22"
Name1 == <<80, 97, 99>>                         \* "Pac"
Name2 == <<79, 114, 103>>                       \* "Org"
Jan1 == <<50, 48, 50, 48, 48, 49, 48, 49>>      \* "20200101"
Mar31 == <<50, 48, 50, 48, 48, 51, 51, 49>>     \* "20200331"
Jun30 == <<50, 48, 50, 48, 48, 54, 51, 48>>     \* "20200630"
DateBad == <<50, 48, 50, 48>>                   \* "2020"
Flag0 == <<48>>                                 \* "0"
Flag1 == <<49>>                                 \* "1"
Donor == <<74, 111>>                            \* "Jo"
Amount == <<57, 46, 53>>                        \* "9.5"
AmountBad == <<110, 47, 97>>                    \* "n/a"

\* The rows of a file of filings and their amendments.
AmendmentRows ==
    { <<Cell2, Id1, Ein1, Name1, Jan1, Mar31, Flag0>>,   \* an original report
      <<Cell2, Id2, Ein1, Name2, Jan1, Mar31, Flag1>>,   \* an amendment of it
      <<Cell2, Id3, Ein1, Name1, Jan1, Mar31, Flag1>>,   \* a second amendment
      <<Cell2, Id2, Ein2, Name1, Jan1, Mar31, Flag1>>,   \* another filer's
      <<Cell2, Id3, Ein1, Name1, Jan1, Jun30, Flag1>>,   \* another period's
      <<Cell2, Id3, Ein1, Name1, DateBad, Mar31, Flag1>>,\* a malformed date
      <<Cell2, IdBad, Ein1, Name1, Jan1, Mar31, Flag1>> }\* a malformed id

\* The rows of a file of a filing and its schedules.
ScheduleRows ==
    { <<Cell2, Id1, Ein1, Name1, Jan1, Mar31, Flag0>>,
      <<Cell2, IdBad, Ein1, Name1, Jan1, Mar31, Flag0>>, \* a malformed id
      <<Cell2>>,                                         \* no id, no EIN
      <<CellA, Id1, Ein1, Donor, Amount, Jan1>>,
      <<CellA, Id1, Ein1, Donor, AmountBad, DateBad>>,   \* malformed cells
      <<CellA>>,                                         \* no id
      <<CellB, Id1, Ein1, Donor, Amount, Jan1>>,
      <<>>,                                              \* an empty line
      <<CellZ, Id1>> }                                   \* no form type

\* The rows a data file of a kind may hold.
Rows(kind) == IF kind = "amendments" THEN AmendmentRows ELSE ScheduleRows

(***************************************************************************)
(* State                                                                   *)
(***************************************************************************)
VARIABLES
    \* the module's globals (load.py lines 29, 30, 33, 37)
    CONTRIBUTIONS, EXPENDITURES, PARSE_PEOPLE, PARSED_FILING_IDS,
    \* the tables of the database
    F8872s, Committees, Contributions, Expenditures,
    \* Command.handle: where it is, how many times it was called, its --people
    \* option, the data file (its kind, and its rows as far as they were
    \* read), whether its end was seen, the number of rows read in this call,
    \* the row at hand, the last RowParser's parsed_row, and the amending
    \* filings still to visit
    pc, run, people, kind, file, fileComplete, pos, row, parsed_row, todo,
    \* the exception that ended the last call ("": none)
    error,
    \* the records this call appended to a buffer, in order
    enqueued,
    \* whether this call has called probablepeople.tag
    tag_called,
    \* the first call that returned: its option and the tables it left
    first

globals == <<CONTRIBUTIONS, EXPENDITURES, PARSE_PEOPLE, PARSED_FILING_IDS>>
tables == <<F8872s, Committees, Contributions, Expenditures>>
input == <<kind, file, fileComplete, pos, row>>
vars == <<globals, tables, pc, run, people, input, parsed_row, todo, error, enqueued,
          tag_called, first>>

NoRow == <<>>
NoParsedRow == <<>>

Init ==
    /\ CONTRIBUTIONS = <<>>
    /\ EXPENDITURES = <<>>
    /\ PARSE_PEOPLE = FALSE
    /\ PARSED_FILING_IDS = {}
    /\ F8872s = {}
    /\ Committees = {}
    /\ Contributions = <<>>
    /\ Expenditures = <<>>
    /\ pc = "idle"
    /\ run = 0
    /\ people = FALSE
    /\ kind \in {"amendments", "schedules"}
    /\ file = <<>>
    /\ fileComplete = FALSE
    /\ pos = 0
    /\ row = NoRow
    /\ parsed_row = NoParsedRow
    /\ todo = {}
    /\ error = ""
    /\ enqueued = <<>>
    /\ tag_called = FALSE
    /\ first = [returned |-> FALSE, people |-> FALSE, tables |-> <<{}, {}, <<>>, <<>>>>]

(***************************************************************************)
(* The database, as the command uses it                                    *)
(***************************************************************************)
Max(S) == CHOOSE n \in S : \A m \in S : m <= n

\* A get_or_create that sets the name of a committee it found as well.
get_or_create_renaming(committees, ein, name) ==
    {c \in committees : c.EIN # ein} \cup {[EIN |-> ein, name |-> name]}

\* Committee.objects.get_or_create(EIN=ein) followed by the name's update
\* when the committee was created: the table afterwards.
get_or_create(committees, ein, name) ==
    IF \E c \in committees : c.EIN = ein
    THEN committees
    ELSE committees \cup {[EIN |-> ein, name |-> name]}

\* filing.save() of a filing with a primary key: the row with that key is
\* replaced, or the filing inserted.
save(filings, filing) ==
    {f \in filings : f.form_id_number # filing.form_id_number} \cup {filing}

\* The key a database that fills in a missing integer key gives.
next_key(filings) ==
    IntV(IF filings = {} THEN 1 ELSE Max({f.form_id_number[2] : f \in filings}) + 1)

\* The filter with form_id_number__lte in place of form_id_number__lt.
previous_filings_lte(filings, filing) ==
    {g \in filings :
        /\ g.committee_id = filing.EIN
        /\ g.begin_date = filing.begin_date
        /\ g.end_date = filing.end_date
        /\ g.form_id_number[2] <= filing.form_id_number[2]}

\* The filter of the amendment pass: the filings of the same committee and
\* period with a smaller id.
previous_filings(filings, filing) ==
    {g \in filings :
        /\ g.committee_id = filing.EIN
        /\ g.begin_date = filing.begin_date
        /\ g.end_date = filing.end_date
        /\ g.form_id_number[2] < filing.form_id_number[2]}

\* An update that sets is_amended alone.
update_flag_only(filings, previous, by) ==
    {IF g \in previous THEN [g EXCEPT !.is_amended = TRUE] ELSE g : g \in filings}

\* previous_filings.update(is_amended=True, amended_by_id=...)
update(filings, previous, by) ==
    {IF g \in previous
     THEN [g EXCEPT !.is_amended = TRUE, !.amended_by_id = by]
     ELSE g : g \in filings}

\* F8872.objects.filter(amended_report_indicator=1)
amending(filings) == {f \in filings : f.amended_report_indicator = IntV(1)}

(***************************************************************************)
(* probablepeople.tag: what it may answer for a name                       *)
(***************************************************************************)
StrV(x) == <<"str", x>>

TagResults ==
    { [raises |-> "", entity_type |-> StrV("Person"), GivenName |-> StrV("JO"),
       MiddleName |-> Null, MiddleInitial |-> StrV("Q"), Surname |-> Null,
       CorporationName |-> Null],
      [raises |-> "", entity_type |-> StrV("Corporation"), GivenName |-> Null,
       MiddleName |-> Null, MiddleInitial |-> Null, Surname |-> Null,
       CorporationName |-> StrV("JO")],
      [raises |-> "", entity_type |-> StrV("Household"), GivenName |-> StrV("JO"),
       MiddleName |-> StrV("AND"), MiddleInitial |-> StrV("Q"), Surname |-> StrV("JO"),
       CorporationName |-> Null],
      [raises |-> "RepeatedLabelError", entity_type |-> Null, GivenName |-> Null,
       MiddleName |-> Null, MiddleInitial |-> Null, Surname |-> Null,
       CorporationName |-> Null],
      \* any other exception of the library
      [raises |-> "Exception", entity_type |-> Null, GivenName |-> Null,
       MiddleName |-> Null, MiddleInitial |-> Null, Surname |-> Null,
       CorporationName |-> Null] }

\* a or b, as Python evaluates it for values that are None or non-empty.
Or(a, b) == IF a # Null THEN a ELSE b

\* The contribution after the name parsing of lines 109-121.
tagged_contribution(contribution, tagged) ==
    IF tagged.entity_type \in {StrV("Person"), StrV("Household")}
    THEN [contribution EXCEPT
            !.entity_type = tagged.entity_type,
            !.contributor_first_name = tagged.GivenName,
            !.contributor_middle_name = Or(tagged.MiddleName, tagged.MiddleInitial),
            !.contributor_last_name = tagged.Surname]
    ELSE IF tagged.entity_type = StrV("Corporation")
    THEN [contribution EXCEPT
            !.entity_type = tagged.entity_type,
            !.contributor_corporation_name = tagged.CorporationName]
    ELSE [contribution EXCEPT !.entity_type = tagged.entity_type]

(***************************************************************************)
(* RowParser.create_contribution and RowParser.create_object               *)
(***************************************************************************)
\* The row was handled: the loop goes on.
RowDone == pc' = "loop" /\ error' = error

\* An exception left RowParser that handle does not catch: handle ends.
RowRaised(exception) == pc' = "failed" /\ error' = exception

\* The test of lines 99 and 134: the record's filing was seen.
admitted(record) == record.form_id_number \in PARSED_FILING_IDS

\* Lines 107-125 with name parsing: RepeatedLabelError is caught and the
\* contribution appended as it was; any other exception leaves the method.
create_tagged(linked) ==
    /\ tag_called' = TRUE
    /\ \E tagged \in TagResults :
          IF tagged.raises \in {"", "RepeatedLabelError"}
          THEN LET c == IF tagged.raises = ""
                        THEN tagged_contribution(linked, tagged)
                        ELSE linked
               IN  /\ CONTRIBUTIONS' = Append(CONTRIBUTIONS, c)
                   /\ enqueued' = Append(enqueued, c)
                   /\ RowDone
          ELSE /\ RowRaised(tagged.raises)
               /\ UNCHANGED <<CONTRIBUTIONS, enqueued>>

\* Lines 95-125.
create_contribution ==
    LET contribution == NewContribution(parsed_row')
        linked == [contribution EXCEPT
                     !.filing_id = contribution.form_id_number,
                     !.committee_id = contribution.EIN]
    IN  IF ~admitted(contribution)
        THEN /\ RowDone
             /\ UNCHANGED <<globals, tables, enqueued, tag_called>>
        ELSE /\ IF PARSE_PEOPLE /\ contribution.contributor_name # Null
                THEN create_tagged(linked)
                ELSE /\ CONTRIBUTIONS' = Append(CONTRIBUTIONS, linked)
                     /\ enqueued' = Append(enqueued, linked)
                     /\ RowDone
                     /\ UNCHANGED tag_called
             /\ UNCHANGED <<EXPENDITURES, PARSE_PEOPLE, PARSED_FILING_IDS, tables>>

\* Lines 130-141.
create_expenditure ==
    LET expenditure == NewExpenditure(parsed_row')
        linked == [expenditure EXCEPT
                     !.filing_id = expenditure.form_id_number,
                     !.committee_id = expenditure.EIN]
    IN  IF ~admitted(expenditure)
        THEN /\ RowDone
             /\ UNCHANGED <<globals, tables, enqueued, tag_called>>
        ELSE /\ EXPENDITURES' = Append(EXPENDITURES, linked)
             /\ enqueued' = Append(enqueued, linked)
             /\ RowDone
             /\ UNCHANGED <<CONTRIBUTIONS, PARSE_PEOPLE, PARSED_FILING_IDS, tables,
                            tag_called>>

\* Lines 143-154. A committee or a filing without its key is refused by the
\* database (IntegrityError), or, for the filing's integer key, given the
\* next free key: which of the two depends on the database.
create_filing ==
    LET filing == NewF8872(parsed_row')
        linked == [filing EXCEPT !.committee_id = filing.EIN]
    IN  /\ PARSED_FILING_IDS' = PARSED_FILING_IDS \cup {filing.form_id_number}
        /\ UNCHANGED <<CONTRIBUTIONS, EXPENDITURES, PARSE_PEOPLE,
                       Contributions, Expenditures, enqueued, tag_called>>
        /\ IF filing.EIN = Null
           THEN /\ RowRaised("IntegrityError")
                /\ UNCHANGED <<F8872s, Committees>>
           ELSE /\ Committees' =
                       get_or_create(Committees, filing.EIN, filing.organization_name)
                /\ IF filing.form_id_number # Null
                   THEN /\ F8872s' = save(F8872s, linked)
                        /\ RowDone
                   ELSE \/ /\ RowRaised("IntegrityError")
                           /\ UNCHANGED F8872s
                        \/ /\ F8872s' = F8872s \cup
                                  {[linked EXCEPT !.form_id_number = next_key(F8872s)]}
                           /\ RowDone

\* Lines 47-54: parse the row, then create the object of its form type. An
\* exception of clean_cell leaves the constructor.
RowParser(form_type, mapping) ==
    /\ parsed_row' = parse_row(mapping, row)
    /\ IF Raises(parsed_row')
       THEN /\ RowRaised("ValueError")
            /\ UNCHANGED <<globals, tables, enqueued, tag_called>>
       ELSE IF form_type = CellA THEN create_contribution
       ELSE IF form_type = CellB THEN create_expenditure
       ELSE create_filing

(***************************************************************************)
(* Command.handle                                                          *)
(***************************************************************************)
Callable == pc \in {"idle", "done", "failed"} /\ run < MaxRuns

\* A handle that flushes the database before it looks at the file.
HandleEmptyFileLate ==
    /\ Callable
    /\ run' = run + 1
    /\ pc' = "failed"
    /\ error' = "EmptyFile"
    /\ F8872s' = {} /\ Committees' = {}
    /\ Contributions' = <<>> /\ Expenditures' = <<>>
    /\ UNCHANGED <<globals, people, input, parsed_row, todo, enqueued, tag_called, first>>

\* Lines 240-242, the file is empty: the call raises.
HandleEmptyFile ==
    /\ Callable
    /\ run' = run + 1
    /\ pc' = "failed"
    /\ error' = "EmptyFile"
    /\ UNCHANGED <<globals, tables, people, input, parsed_row, todo, enqueued, tag_called, first>>

\* Lines 240-258, the file has data: the tables are emptied, and --people
\* sets PARSE_PEOPLE.
HandleStart(pp) ==
    /\ Callable
    /\ run' = run + 1
    /\ F8872s' = {} /\ Committees' = {}
    /\ Contributions' = <<>> /\ Expenditures' = <<>>
    /\ people' = pp
    /\ PARSE_PEOPLE' = (IF pp THEN TRUE ELSE PARSE_PEOPLE)
    /\ pos' = 0 /\ row' = NoRow /\ parsed_row' = NoParsedRow
    /\ todo' = {} /\ enqueued' = <<>> /\ tag_called' = FALSE
    /\ pc' = "loop" /\ error' = ""
    /\ UNCHANGED <<CONTRIBUTIONS, EXPENDITURES, PARSED_FILING_IDS, kind, file,
                   fileComplete, first>>

\* A check that flushes a buffer as soon as it holds the threshold.
FlushCheck_at_threshold ==
    /\ IF Len(CONTRIBUTIONS) >= FlushThreshold
       THEN /\ Contributions' = Contributions \o CONTRIBUTIONS
            /\ CONTRIBUTIONS' = <<>>
       ELSE UNCHANGED <<Contributions, CONTRIBUTIONS>>
    /\ IF Len(EXPENDITURES) >= FlushThreshold
       THEN /\ Expenditures' = Expenditures \o EXPENDITURES
            /\ EXPENDITURES' = <<>>
       ELSE UNCHANGED <<Expenditures, EXPENDITURES>>

\* Lines 263-268, the check at the head of the loop body: a buffer that
\* holds more than the threshold is inserted and replaced by an empty one.
FlushCheck ==
    /\ IF Len(CONTRIBUTIONS) > FlushThreshold
       THEN /\ Contributions' = Contributions \o CONTRIBUTIONS
            /\ CONTRIBUTIONS' = <<>>
       ELSE UNCHANGED <<Contributions, CONTRIBUTIONS>>
    /\ IF Len(EXPENDITURES) > FlushThreshold
       THEN /\ Expenditures' = Expenditures \o EXPENDITURES
            /\ EXPENDITURES' = <<>>
       ELSE UNCHANGED <<Expenditures, EXPENDITURES>>

\* Line 262 with lines 263-268: the reader gives the next row.
ReadRow(r) ==
    /\ pc = "loop"
    /\ row' = r
    /\ pos' = pos + 1
    /\ FlushCheck
    /\ pc' = "parse"
    /\ UNCHANGED <<PARSE_PEOPLE, PARSED_FILING_IDS, F8872s, Committees,
                   kind, fileComplete, parsed_row, todo, error, enqueued, tag_called, run,
                   people, first>>

\* Some record of the batch has a filing_id that is the key of no filing
\* stored.
dangling(records, filings) ==
    \E i \in 1..Len(records) :
        records[i].filing_id \notin {f.form_id_number : f \in filings}

\* Lines 263-268 with a database that enforces the foreign key of filing_id:
\* the bulk_create of a batch with a dangling record raises IntegrityError,
\* either the first, or the second after the first was done. The row the
\* reader gave is not looked at.
FlushRaises ==
    /\ pc = "loop"
    /\ \/ pos < Len(file)
       \/ pos = Len(file) /\ ~fileComplete /\ Len(file) < MaxRows
    /\ \/ /\ Len(CONTRIBUTIONS) > FlushThreshold
          /\ dangling(CONTRIBUTIONS, F8872s)
          /\ UNCHANGED <<CONTRIBUTIONS, Contributions>>
       \/ /\ Len(EXPENDITURES) > FlushThreshold
          /\ dangling(EXPENDITURES, F8872s)
          /\ IF Len(CONTRIBUTIONS) > FlushThreshold
             THEN /\ Contributions' = Contributions \o CONTRIBUTIONS
                  /\ CONTRIBUTIONS' = <<>>
             ELSE UNCHANGED <<CONTRIBUTIONS, Contributions>>
    /\ pc' = "failed"
    /\ error' = "IntegrityError"
    /\ UNCHANGED <<EXPENDITURES, PARSE_PEOPLE, PARSED_FILING_IDS, F8872s, Committees,
                   Expenditures, run, people, input, parsed_row, todo, enqueued,
                   tag_called, first>>

\* A row of the file that no call has read yet.
ReadNewRow ==
    /\ pos = Len(file) /\ ~fileComplete /\ Len(file) < MaxRows
    /\ \E r \in Rows(kind) : ReadRow(r) /\ file' = Append(file, r)

\* A row an earlier call has read: the file is the same in every call.
RereadRow ==
    /\ pos < Len(file)
    /\ ReadRow(file[pos + 1])
    /\ UNCHANGED file

\* Lines 272-277: the mapping of a form type.
mappings(form_type) ==
    IF form_type = Cell2 THEN F8872_MAPPING
    ELSE IF form_type = CellA THEN SA_MAPPING
    ELSE SB_MAPPING

\* Lines 271-277: the row has a first cell and it is a form type.
has_form_type(r) == IF r = <<>> THEN FALSE ELSE r[1] \in {Cell2, CellA, CellB}

\* A try block whose IndexError is not caught.
SkipRowUncaught ==
    /\ pc = "parse"
    /\ ~has_form_type(row)
    /\ pc' = IF row = <<>> THEN "failed" ELSE "loop"
    /\ error' = IF row = <<>> THEN "IndexError" ELSE error
    /\ UNCHANGED <<globals, tables, run, people, input, parsed_row, todo, enqueued, tag_called,
                   first>>

\* Lines 270-279 for a row without cells (IndexError, caught) or with a
\* first cell that is no form type.
SkipRow ==
    /\ pc = "parse"
    /\ ~has_form_type(row)
    /\ pc' = "loop"
    /\ UNCHANGED <<globals, tables, run, people, input, parsed_row, todo, error,
                   enqueued, tag_called, first>>

\* Lines 270-279 for a row of a form type.
ProcessRow ==
    /\ pc = "parse"
    /\ has_form_type(row)
    /\ RowParser(row[1], mappings(row[1]))
    /\ UNCHANGED <<run, people, input, todo, first>>

\* The reader is exhausted; line 282 evaluates the query of the amending
\* filings.
EndOfFile ==
    /\ pc = "loop"
    /\ pos >= 1
    /\ pos = Len(file)
    /\ fileComplete' = TRUE
    /\ todo' = amending(F8872s)
    /\ pc' = "resolve"
    /\ UNCHANGED <<globals, tables, run, people, kind, file, pos, row, parsed_row,
                   error, enqueued, tag_called, first>>

\* Lines 282-291, one turn of the loop: the query has no order_by, so the
\* amending filings come in an order the database chooses.
Resolve ==
    /\ pc = "resolve"
    /\ \E filing \in todo :
          /\ F8872s' = update(F8872s, previous_filings(F8872s, filing),
                              filing.form_id_number)
          /\ todo' = todo \ {filing}
    /\ UNCHANGED <<globals, Committees, Contributions, Expenditures, pc, run,
                   people, input, parsed_row, error, enqueued, tag_called, first>>

\* Line 294: the loop is over and handle returns.
Finish ==
    /\ pc = "resolve"
    /\ todo = {}
    /\ pc' = "done"
    /\ first' = IF first.returned THEN first
                ELSE [returned |-> TRUE, people |-> people, tables |-> tables]
    /\ UNCHANGED <<globals, tables, run, people, input, parsed_row, todo, error,
                   enqueued, tag_called>>

Next ==
    \/ HandleEmptyFile
    \/ \E pp \in BOOLEAN : HandleStart(pp)
    \/ ReadNewRow
    \/ RereadRow
    \/ FlushRaises
    \/ SkipRow
    \/ ProcessRow
    \/ EndOfFile
    \/ Resolve
    \/ Finish

Spec == Init /\ [][Next]_vars

(***************************************************************************)
(* Properties                                                              *)
(***************************************************************************)
Range(q) == {q[i] : i \in 1..Len(q)}

\* The rows this call has handled: all it has read but the one at hand.
Handled == IF pc = "parse" THEN pos - 1 ELSE pos

\* The form_id_number cell of a row as the cleaner reads it.
RowId(r) == Field(parse_row(F8872_MAPPING, r), "form_id_number")

IsFilingRow(r) == IF r = <<>> THEN FALSE ELSE r[1] = Cell2
IsScheduleRow(r) == IF r = <<>> THEN FALSE ELSE r[1] \in {CellA, CellB}

\* The ids the filing rows before the row at hand gave in this call.
EmittedEarlier == {RowId(file[i]) : i \in {j \in 1..(pos - 1) : IsFilingRow(file[j])}}

\* C1: when a call has returned, every contribution and expenditure it
\* admitted is in its table and both buffers are empty.
C1_AdmittedArePersisted ==
    pc = "done" =>
        /\ CONTRIBUTIONS = <<>>
        /\ EXPENDITURES = <<>>
        /\ \A i \in 1..Len(enqueued) :
              enqueued[i] \in Range(Contributions) \cup Range(Expenditures)

\* C2: a contribution or expenditure row whose form_id_number no filing row
\* gave earlier in the same call is not appended to a buffer, not inserted,
\* and raises no error (stated for the rows whose form_id_number parses).
C2_OrphanIsDiscarded ==
    [][(/\ pc = "parse" /\ IsScheduleRow(row)
        /\ RowId(row) # Null /\ RowId(row) \notin EmittedEarlier)
         => (/\ UNCHANGED <<CONTRIBUTIONS, EXPENDITURES, Contributions, Expenditures>>
             /\ pc' = "loop")]_vars

\* Every row of a form type in the file has a form_id_number that parses.
FileHasIds == \A i \in 1..Len(file) : has_form_type(file[i]) => RowId(file[i]) # Null

\* C4: a second call with the same file and option leaves the tables the
\* first call left (stated for files of schedules whose ids parse, loaded
\* without name parsing, where nothing but the file decides the outcome).
C4_RerunLeavesSameTables ==
    (/\ pc = "done" /\ first.returned /\ run >= 2
     /\ kind = "schedules" /\ FileHasIds /\ ~PARSE_PEOPLE /\ people = first.people)
        => tables = first.tables

\* C5: within a call the set of parsed filing ids only grows, and when a new
\* call has emptied the tables the set is empty.
C5_SeenSetLifecycle ==
    [][IF run' # run
       THEN pc' = "loop" => PARSED_FILING_IDS' = {}
       ELSE PARSED_FILING_IDS \subseteq PARSED_FILING_IDS']_vars

(***************************************************************************)
(* Amendments                                                              *)
(***************************************************************************)
Amends(f) == f.amended_report_indicator = IntV(1)

\* g is a filing of f's committee and period with a smaller id.
Precedes(g, f) ==
    /\ g # f
    /\ g.EIN = f.EIN
    /\ g.begin_date = f.begin_date
    /\ g.end_date = f.end_date
    /\ g.form_id_number[2] < f.form_id_number[2]

\* C3 as claimed: when the call has returned, every filing that precedes an
\* amending filing F is marked amended by F, for every such F.
C3_MarkedByEveryAmendment ==
    pc = "done" =>
        \A f \in F8872s : \A g \in F8872s :
            (Amends(f) /\ Precedes(g, f))
                => (g.is_amended /\ g.amended_by_id = f.form_id_number)

\* C3 as amended: when the call has returned, every filing that precedes an
\* amending filing is marked amended, and amended_by_id is the id of an
\* amending filing it precedes (so of F when F is the only one).
C3_MarkedBySomeAmendment ==
    pc = "done" =>
        \A f \in F8872s : \A g \in F8872s :
            (Amends(f) /\ Precedes(g, f))
                => /\ g.is_amended
                   /\ \E h \in F8872s :
                         Amends(h) /\ Precedes(g, h) /\ g.amended_by_id = h.form_id_number

\* A returned call that stored a filing preceding two amending filings, and
\* marked it.
C3_Witness ==
    /\ pc = "done"
    /\ \E g \in F8872s : \E f \in F8872s : \E h \in F8872s :
          /\ f # h /\ Amends(f) /\ Amends(h)
          /\ Precedes(g, f) /\ Precedes(g, h)
          /\ g.is_amended /\ g.amended_by_id = f.form_id_number

\* C6: when the call has returned, a filing that precedes no amending filing
\* is not marked: is_amended is false and amended_by_id is null.
C6_OthersUntouched ==
    pc = "done" =>
        \A g \in F8872s :
            (~\E f \in F8872s : Amends(f) /\ Precedes(g, f))
                => (g.is_amended = FALSE /\ g.amended_by_id = Null)

\* A returned call with an amending filing that marked an earlier filing
\* and left unmarked itself, a filing of another committee or period, and a
\* filing with a larger id.
C6_Witness ==
    /\ pc = "done"
    /\ \E f \in F8872s : \E g \in F8872s : \E h \in F8872s :
          /\ Amends(f) /\ ~f.is_amended
          /\ Precedes(g, f) /\ g.amended_by_id = f.form_id_number
          /\ h # f /\ ~h.is_amended
          /\ h.form_id_number[2] > f.form_id_number[2]

(***************************************************************************)
(* Errors                                                                  *)
(***************************************************************************)
\* C7: a call on an empty file raises and changes neither the tables, nor
\* the set of parsed ids, nor the buffers, and parses no row.
C7_EmptyFileChangesNothing ==
    [][(run' # run /\ error' = "EmptyFile")
         => (pc' = "failed" /\ UNCHANGED <<globals, tables, pos, row, parsed_row>>)]_vars

\* A call on an empty file has raised while the tables, the set of parsed
\* ids and a buffer held what an earlier call left.
C7_Witness ==
    /\ pc = "failed" /\ error = "EmptyFile"
    /\ F8872s # {} /\ Committees # {}
    /\ PARSED_FILING_IDS # {} /\ CONTRIBUTIONS # <<>>

RowEIN(r) == Field(parse_row(F8872_MAPPING, r), "EIN")
RowName(r) == Field(parse_row(F8872_MAPPING, r), "organization_name")

\* The filing rows this call has handled that carry the EIN e.
FilingRowsOf(e) == {i \in 1..Handled : IsFilingRow(file[i]) /\ RowEIN(file[i]) = e}

\* The EINs of the filing rows this call has handled.
HandledEINs == {RowEIN(file[i]) : i \in {j \in 1..Handled : IsFilingRow(file[j])}} \ {Null}

\* C9: there is exactly one committee for each EIN of a handled filing row
\* and none else, its name is the organization_name of the first such row
\* of the file, and every filing stored is linked to the committee with its EIN.
C9_OneCommitteePerEIN ==
    /\ \A e \in HandledEINs :
          /\ Cardinality({c \in Committees : c.EIN = e}) = 1
          /\ \A c \in Committees :
                c.EIN = e =>
                    c.name = RowName(file[CHOOSE i \in FilingRowsOf(e) :
                                            \A j \in FilingRowsOf(e) : i <= j])
    /\ \A c \in Committees : c.EIN \in HandledEINs
    /\ \A f \in F8872s :
          f.committee_id = f.EIN /\ \E c \in Committees : c.EIN = f.committee_id

\* Two filing rows with one EIN and different names were handled: the
\* committee has the first name and a filing stored has the other.
C9_Witness ==
    /\ pc = "loop"
    /\ \E c \in Committees : \E f \in F8872s :
          /\ f.committee_id = c.EIN
          /\ f.organization_name # c.name
          /\ Cardinality(FilingRowsOf(c.EIN)) >= 2

(***************************************************************************)
(* Cells                                                                   *)
(***************************************************************************)
\* The row at hand has a form type and was handled.
RowWasParsed == pc # "parse" /\ pos >= 1 /\ has_form_type(row)

RowContributor(r) == Field(parse_row(SA_MAPPING, r), "contributor_name")

\* The fields the name parsing fills in are all null.
Untagged(c) ==
    /\ c.entity_type = Null
    /\ c.contributor_first_name = Null
    /\ c.contributor_middle_name = Null
    /\ c.contributor_last_name = Null
    /\ c.contributor_corporation_name = Null

\* The contributions among the records this call appended to a buffer.
EnqueuedContributions ==
    {enqueued[i] : i \in {j \in 1..Len(enqueued) : "entity_type" \in DOMAIN enqueued[j]}}

\* C13: with name parsing on, an admitted contribution row with a name is
\* always appended to the buffer and no error leaves the row, whatever the
\* classifier does; when the classifier gave no entity type, the fields of
\* the name parsing are all null.
C13_TagFailureIsLocal ==
    [][(/\ pc = "parse" /\ PARSE_PEOPLE
        /\ (IF row = <<>> THEN FALSE ELSE row[1] = <<65>>)
        /\ RowId(row) \in PARSED_FILING_IDS
        /\ RowContributor(row) # Null)
         => (/\ pc' = "loop" /\ error' = error
             /\ Len(CONTRIBUTIONS') = Len(CONTRIBUTIONS) + 1
             /\ LET c == CONTRIBUTIONS'[Len(CONTRIBUTIONS')]
                IN  /\ enqueued' = Append(enqueued, c)
                    /\ c.contributor_name = RowContributor(row)
                    /\ c.entity_type = Null => Untagged(c))]_vars

\* The ids of the filings stored.
StoredIds == {f.form_id_number : f \in F8872s}

\* C14: in a call started without --people the classifier is not called and
\* no contribution the call appended has an entity type or a field of the
\* name parsing set (stated for the states where every parsed id is the id
\* of a filing this call stored, so that no row is admitted by an id an
\* earlier call left).
C14_ParsingIsOptIn ==
    (run >= 1 /\ ~people /\ PARSED_FILING_IDS \subseteq StoredIds) =>
        /\ ~tag_called
        /\ \A c \in EnqueuedContributions : Untagged(c)

(***************************************************************************)
(* The set of parsed filing ids                                            *)
(***************************************************************************)
\* C15: the set of parsed filing ids never holds None, and no contribution
\* or expenditure in a buffer or a table has a null form_id_number.
C15_NoNullInSeenSet ==
    /\ Null \notin PARSED_FILING_IDS
    /\ \A r \in Range(CONTRIBUTIONS) \cup Range(EXPENDITURES)
                  \cup Range(Contributions) \cup Range(Expenditures) :
          r.form_id_number # Null

(***************************************************************************)
(* Batches                                                                 *)
(***************************************************************************)
\* The records a step has added to a table.
Added(before, after) == {after[i] : i \in (Len(before) + 1)..Len(after)}

\* C16: every record of a batch a step inserts has the filing_id of a filing
\* that is stored at that moment.
C16_ParentBeforeChild ==
    [][\A r \in Added(Contributions, Contributions') \cup Added(Expenditures, Expenditures') :
          r.filing_id \in {f.form_id_number : f \in F8872s'}]_vars

\* C17: a buffer never holds more than FlushThreshold + 1 records; the step
\* that starts a row's iteration inserts a buffer that holds more than
\* FlushThreshold records, which are then FlushThreshold + 1, and replaces
\* it by an empty one, and leaves a buffer and its table alone otherwise,
\* each buffer by its own length; and no other step inserts a batch.
C17_BufferBoundAndBatch ==
    [][/\ Len(CONTRIBUTIONS') <= FlushThreshold + 1
       /\ Len(EXPENDITURES') <= FlushThreshold + 1
       /\ (pc = "loop" /\ pc' = "parse") =>
             /\ IF Len(CONTRIBUTIONS) > FlushThreshold
                THEN /\ Len(CONTRIBUTIONS) = FlushThreshold + 1
                     /\ Contributions' = Contributions \o CONTRIBUTIONS
                     /\ CONTRIBUTIONS' = <<>>
                ELSE UNCHANGED <<CONTRIBUTIONS, Contributions>>
             /\ IF Len(EXPENDITURES) > FlushThreshold
                THEN /\ Len(EXPENDITURES) = FlushThreshold + 1
                     /\ Expenditures' = Expenditures \o EXPENDITURES
                     /\ EXPENDITURES' = <<>>
                ELSE UNCHANGED <<EXPENDITURES, Expenditures>>
       /\ Added(Contributions, Contributions') # {} =>
             /\ pc = "loop"
             /\ Len(Contributions') = Len(Contributions) + FlushThreshold + 1
             /\ CONTRIBUTIONS' = <<>>
       /\ Added(Expenditures, Expenditures') # {} =>
             /\ pc = "loop"
             /\ Len(Expenditures') = Len(Expenditures) + FlushThreshold + 1
             /\ EXPENDITURES' = <<>>]_vars

\* A call that began with empty buffers has inserted the contributions it
\* appended, FlushThreshold + 1 of them, at the head of a row's iteration,
\* and the buffer is empty.
C17_Witness ==
    /\ pc = "parse"
    /\ Len(enqueued) = FlushThreshold + 1
    /\ Contributions = enqueued
    /\ CONTRIBUTIONS = <<>>

(***************************************************************************)
(* clean_cell on text cells                                                *)
(***************************************************************************)
\* The longest text cell tried has TEXT_MAX + MaxExtra characters.
MaxExtra == 2

Euro == <<8364>>                                \* a character outside ASCII
Lower(c) == IF c \in 65..90 THEN c + 32 ELSE c
LowerSeq(s) == [i \in 1..Len(s) |-> Lower(s[i])]
\* Upper case at the odd places, lower case at the even ones.
MixedSeq(s) == [i \in 1..Len(s) |-> IF i % 2 = 1 THEN Upper(s[i]) ELSE Lower(s[i])]
\* n times the character c.
Rep(c, n) == [i \in 1..n |-> c]
\* s with the text c put in after its first k characters (at its end when it
\* has fewer).
InsertAt(s, k, c) ==
    LET n == Min(k, Len(s))
    IN  SubSeq(s, 1, n) \o c \o SubSeq(s, n + 1, Len(s))

\* The null terms in upper, lower and mixed case.
SentinelCells == UNION {{t, LowerSeq(t), MixedSeq(t)} : t \in NULL_TERMS}

\* Cells of one letter repeated, about as long as the longest text kept.
LongCells == {Rep(97, n) : n \in (TEXT_MAX - 2)..(TEXT_MAX + MaxExtra)}

\* The text cells tried: empty, short, null terms, long; each also with a
\* character outside ASCII somewhere in it; and two such characters alone
\* or at the ends of a long cell.
TextCells ==
    LET plain == {<<>>, Donor, <<78, 65, 65>>, <<32, 78, 65>>, <<110>>}
                    \cup SentinelCells \cup LongCells
    IN  plain
        \cup {InsertAt(s, k, Euro) : s \in {<<>>, Donor, <<78, 65>>, <<110, 47, 97>>},
                                      k \in 0..3}
        \cup {InsertAt(s, k, Euro) : s \in LongCells,
                                      k \in {0, 1, TEXT_MAX - 1, TEXT_MAX, TEXT_MAX + 1}}
        \cup {InsertAt(s, 1, Euro) : s \in SentinelCells}
        \cup {Euro \o s \o Euro : s \in LongCells \cup {<<>>}}

\* clean_cell is about to be called on a text cell: the row at hand is the
\* cell alone.
CleanerInit ==
    /\ CONTRIBUTIONS = <<>>
    /\ EXPENDITURES = <<>>
    /\ PARSE_PEOPLE = FALSE
    /\ PARSED_FILING_IDS = {}
    /\ F8872s = {}
    /\ Committees = {}
    /\ Contributions = <<>>
    /\ Expenditures = <<>>
    /\ pc = "clean"
    /\ run = 1
    /\ people = FALSE
    /\ kind = "schedules"
    /\ file = <<>>
    /\ fileComplete = FALSE
    /\ pos = 1
    /\ row \in {<<c>> : c \in TextCells}
    /\ parsed_row = NoParsedRow
    /\ todo = {}
    /\ error = ""
    /\ enqueued = <<>>
    /\ tag_called = FALSE
    /\ first = [returned |-> FALSE, people |-> FALSE, tables |-> <<{}, {}, <<>>, <<>>>>]

\* Lines 92-93 for a text field: the cell is cleaned and kept by its name.
CleanCell ==
    /\ pc = "clean"
    /\ parsed_row' = [text |-> clean_cell(row[1], "C")]
    /\ pc' = "cleaned"
    /\ UNCHANGED <<globals, tables, run, people, input, todo, error, enqueued, tag_called, first>>

CleanerSpec == CleanerInit /\ [][CleanCell]_vars

\* The cell, and what clean_cell gave for it.
TheCell == row[1]
Cleaned == parsed_row.text
IsText(v) == v # Null /\ v[1] = "text" /\ v[2] # <<>>

\* C11 as claimed: a text cell that is empty or, ignoring case, a null term
\* gives None, and every other text cell gives a string.
C11_NullIffSentinelCell ==
    pc = "cleaned" =>
        IF TheCell = <<>> \/ UpperSeq(TheCell) \in NULL_TERMS
        THEN Cleaned = Null
        ELSE IsText(Cleaned)

\* C11 as amended: a text cell whose ASCII characters are none or, ignoring
\* case, a null term gives None, and every other text cell gives a string
\* that is not empty.
C11_NullIffSentinelAscii ==
    pc = "cleaned" =>
        LET a == Filter(TheCell, 0..127)
        IN  IF a = <<>> \/ UpperSeq(a) \in NULL_TERMS
            THEN Cleaned = Null
            ELSE IsText(Cleaned)

\* The lower-case 'n/a' with a character outside ASCII in it gave None.
C11_Witness ==
    /\ pc = "cleaned"
    /\ TheCell = <<110, 47>> \o Euro \o <<97>>
    /\ Cleaned = Null

\* C12 as claimed: a text cell of more than 50 characters gives the first 50
\* characters of the cell in upper case.
C12_CutOfInput ==
    (pc = "cleaned" /\ Len(UpperSeq(TheCell)) > 50) =>
        /\ IsText(Cleaned)
        /\ Len(Cleaned[2]) = 50
        /\ Cleaned[2] = SubSeq(UpperSeq(TheCell), 1, 50)

\* C12 as amended: a text cell with more than 50 ASCII characters gives the
\* first 50 of its ASCII characters in upper case.
C12_CutOfAscii ==
    LET a == Filter(TheCell, 0..127)
    IN  (pc = "cleaned" /\ Len(a) > 50) =>
            /\ IsText(Cleaned)
            /\ Len(Cleaned[2]) = 50
            /\ Cleaned[2] = SubSeq(UpperSeq(a), 1, 50)

\* A cell of 51 letters after a character outside ASCII gave 50 letters in
\* upper case.
C12_Witness ==
    /\ pc = "cleaned"
    /\ TheCell = Euro \o Rep(97, 51)
    /\ Cleaned = TextV(Rep(65, 50))

==========================================================================
